---- MODULE Spec2Model ----
(***************************************************************************)
(* Session manager over a Redis store (src/python/session_manager.py).     *)
(*                                                                         *)
(* The store is modelled by the commands the manager issues: a string key  *)
(* with expiry per session, a set per user with its own expiry, and one    *)
(* sorted set keyed by expiry timestamp.  Every store command and every    *)
(* clock read of an operation is one step, so that the clock and other     *)
(* callers may move between them.  Time is counted in whole seconds.       *)
(* The manager is driven by a client that returns bytes, as in             *)
(* src/tests/test_session_manager.py (the .decode() calls need it).        *)
(***************************************************************************)
EXTENDS Integers, Sequences, FiniteSets, TLC

\* ------------------------------------------------------------------ bounds
MaxSessions == 2
MaxTime == 2

\* ------------------------------------------------------------------ inputs
Procs == {"p1", "p2"}
Users == {"user_1", "user_2"}
Ttls == {1, 2}
\* metadata arguments: None, {"ip": "10.0.0.1"}, {"tags": ("admin", "beta")}.
MetaInputs == {"None", "ip", "tags"}
\* User ids the validator rejects: empty, with a space, with a slash, too long.
InvalidUsers == {"empty", "spaced", "slashed", "long"}
AllUsers == Users \cup InvalidUsers
\* User ids at the edges of the rule: a trailing newline, exactly 255 characters.
EdgeUsers == {"newline", "full"}
CandidateUsers == AllUsers \cup EdgeUsers
MaxUserIdLength == 255
\* settings.max_sessions_per_user, as the deployment sets MAX_SESSIONS_PER_USER.
MaxSessionsPerUser == 1
SessionIds == 1..MaxSessions
NonExistentSession == 0
NoExpiry == -1
KeyMissing == -2

VARIABLES
    now,          \* the wall clock both the manager and the store read
    sessions,     \* "session:<id>" keys: id -> [val, exp]
    userSets,     \* "user_sessions:<user>" keys: user -> [members, exp]
    cleanupIdx,   \* "session_cleanup" sorted set: id -> score
    nextId,       \* ids the uuid generator has handed out so far
    proc,         \* per caller: position in its operation and its locals
    issued,       \* history: id -> the record create returned
    written,      \* history: id -> the key create's SETEX wrote, [val, exp]
    invalidated,  \* history: ids for which invalidate_session returned True
    listed,       \* history: ids get_user_sessions has returned so far
    revoked       \* history: ids listed for a user before a later
                  \*          invalidate_user_sessions of that user returned

vars == <<now, sessions, userSets, cleanupIdx, nextId, proc,
          issued, written, invalidated, listed, revoked>>
store == <<sessions, userSets, cleanupIdx>>
hist == <<issued, written, invalidated, listed, revoked>>

\* ------------------------------------------------------------------ helpers
Put(f, k, v) == [x \in DOMAIN f \cup {k} |-> IF x = k THEN v ELSE f[x]]
Remove(f, k) == [x \in DOMAIN f \ {k} |-> f[x]]

\* SessionData, field by field; NoSession stands for Python's None.
NoSession ==
    [user_id |-> "", session_id |-> NonExistentSession, created_at |-> 0,
     expires_at |-> 0, is_active |-> FALSE, metadata |-> "", last_activity |-> 0]

\* metadata=metadata or {}
MetaOrEmpty(m) == IF m = "None" THEN "{}" ELSE m

\* JSON text of a metadata value (Dict[str, Any]): strings stay strings, a
\* tuple is written as an array, which reads back as a list.
JsonOfMetadata(m) == IF m = "tags" THEN "tags as list" ELSE m

\* JSON text of a datetime: ISO 8601 with the microseconds datetime carries.
JsonOfDatetime(t) == t

\* model_dump_json: the fields in declaration order.
ModelDumpJson(d) ==
    <<d.user_id, d.session_id, JsonOfDatetime(d.created_at),
      JsonOfDatetime(d.expires_at), d.is_active, JsonOfMetadata(d.metadata),
      JsonOfDatetime(d.last_activity)>>

\* model_validate_json
ModelValidateJson(j) ==
    [user_id |-> j[1], session_id |-> j[2], created_at |-> j[3],
     expires_at |-> j[4], is_active |-> j[5], metadata |-> j[6],
     last_activity |-> j[7]]

\* datetime.timestamp(): seconds since the epoch.
Timestamp(t) == t

\* utcnow() + timedelta that overshoots by a second.
ExpiresAtLate(t, ttl) == t + ttl + 1

\* datetime.utcnow() + timedelta(seconds=ttl_seconds)
ExpiresAt(t, ttl) == t + ttl

\* ------------------------------------------------------------------ validator
\* The characters of each user id the model names.
UserIdText(u) ==
    CASE u = "user_1" -> <<"u", "s", "e", "r", "_", "1">>
      [] u = "user_2" -> <<"u", "s", "e", "r", "_", "2">>
      [] u = "empty" -> <<>>
      [] u = "spaced" -> <<"a", " ", "b">>
      [] u = "slashed" -> <<"a", "/", "b">>
      [] u = "long" -> [i \in 1..(MaxUserIdLength + 1) |-> "a"]
      [] u = "newline" -> <<"a", "b", "\n">>
      [] u = "full" -> [i \in 1..MaxUserIdLength |-> "a"]

\* The characters of [a-zA-Z0-9_-] that the ids above draw on.
UserIdChars ==
    {"a", "b", "e", "r", "s", "u", "z", "A", "Z", "0", "1", "2", "9", "_", "-"}

\* What "$" lets through after the last character of the class: Python's "$"
\* matches at the end of the string and also just before a newline that ends it.
BeforeDollar(text) ==
    IF Len(text) >= 1 /\ text[Len(text)] = "\n"
    THEN SubSeq(text, 1, Len(text) - 1)
    ELSE text

\* re.match(r"^[a-zA-Z0-9_-]+$", v)
MatchesUserIdPattern(text) ==
    /\ Len(BeforeDollar(text)) >= 1
    /\ \A i \in 1..Len(BeforeDollar(text)) : BeforeDollar(text)[i] \in UserIdChars

\* validate_user_id: not empty, at most 255 characters, pattern matched.
ValidateUserId(u) ==
    /\ Len(UserIdText(u)) >= 1
    /\ Len(UserIdText(u)) <= MaxUserIdLength
    /\ MatchesUserIdPattern(UserIdText(u))

\* SessionValidator.user_id: Field(min_length=1, max_length=255), then the
\* field validator with the same pattern.
UserIdFieldOk(u) ==
    /\ Len(UserIdText(u)) >= 1
    /\ Len(UserIdText(u)) <= MaxUserIdLength
    /\ MatchesUserIdPattern(UserIdText(u))

\* SessionValidator.session_id: uuid.UUID(v) parses; the ids uuid4 hands out
\* do, 'non_existent_session' does not.
SessionIdFieldOk(s) == s \in SessionIds

\* An expires_at check that lets expires_at == created_at through.
ExpiresAtOkLax(d) == ~(d.expires_at < d.created_at)

\* validate_expires_at: raises when v <= created_at.
ExpiresAtOk(d) == ~(d.expires_at <= d.created_at)

\* validate_last_activity: raises when v < created_at.
LastActivityOk(d) == ~(d.last_activity < d.created_at)

\* SessionValidator(**data): every field check passes.
SessionValidatorOk(d) ==
    /\ UserIdFieldOk(d.user_id)
    /\ SessionIdFieldOk(d.session_id)
    /\ ExpiresAtOk(d)
    /\ LastActivityOk(d)

\* Times a candidate record can carry.
Times == 0..MaxTime

\* Records handed to validate_session_data.
CandidateRecords ==
    [user_id : CandidateUsers, session_id : SessionIds \cup {NonExistentSession},
     created_at : Times, expires_at : Times, is_active : {TRUE},
     metadata : {"{}"}, last_activity : Times]

\* ------------------------------------------------------------------ store
\* A key with a deadline is gone once the clock is past the deadline.
Expired(exp, t) == exp # NoExpiry /\ t > exp

EmptySet == [members |-> {}, exp |-> NoExpiry]

\* SETEX key ttl value: rejected by the store unless ttl > 0.
SetexOk(ttl) == ttl > 0
Setex(s, ttl, json) == Put(sessions, s, [val |-> json, exp |-> now + ttl])

\* GET key
KeyExists(s) == s \in DOMAIN sessions

\* TTL key: remaining milliseconds rounded to seconds, -2 for a missing key.
TtlReply(s) ==
    IF KeyExists(s)
    THEN ((sessions[s].exp - now) * 1000 + 500) \div 1000
    ELSE KeyMissing

\* DEL key
Del(s) == IF KeyExists(s) THEN Remove(sessions, s) ELSE sessions

\* SADD key member: a new set has no expiry, an existing one keeps its own.
Sadd(u, s) ==
    [userSets EXCEPT ![u] = [members |-> @.members \cup {s}, exp |-> @.exp]]

\* EXPIRE key ttl: no effect on a missing key.
Expire(u, ttl) ==
    IF userSets[u].members = {} THEN userSets
    ELSE [userSets EXCEPT ![u].exp = now + ttl]

\* SREM that leaves the member in place.
SremKept(u, s) == userSets

\* SREM key member: the key goes with its last member.
Srem(u, s) ==
    IF userSets[u].members \ {s} = {} THEN [userSets EXCEPT ![u] = EmptySet]
    ELSE [userSets EXCEPT ![u].members = @ \ {s}]

\* SMEMBERS that answers with the members of every user's set.
SmembersOfAll(u) == UNION {userSets[v].members : v \in AllUsers}

\* SMEMBERS key
Smembers(u) == userSets[u].members

\* DEL that leaves the set in place.
DelSetKept(u) == userSets

\* DEL of a user's set
DelSet(u) == [userSets EXCEPT ![u] = EmptySet]

\* ZADD key {member: score}
Zadd(s, score) == Put(cleanupIdx, s, score)

\* ZREM key member
Zrem(s) == IF s \in DOMAIN cleanupIdx THEN Remove(cleanupIdx, s) ELSE cleanupIdx

\* ZCARD key
Zcard == Cardinality(DOMAIN cleanupIdx)

\* ZCOUNT key min +inf: both ends inclusive.
Zcount(min) == Cardinality({s \in DOMAIN cleanupIdx : cleanupIdx[s] >= min})

\* ZRANGEBYSCORE key 0 max: ascending by score, ties by member.
ScoreBefore(a, b) ==
    \/ cleanupIdx[a] < cleanupIdx[b]
    \/ cleanupIdx[a] = cleanupIdx[b] /\ a < b

RECURSIVE Ascending(_)
Ascending(S) ==
    IF S = {} THEN <<>>
    ELSE LET first == CHOOSE a \in S : \A b \in S \ {a} : ScoreBefore(a, b)
         IN <<first>> \o Ascending(S \ {first})

\* An upper score bound one second past the time the sweep read.
ZrangeMaxLate(max) == max + 1

\* max=current_time
ZrangeMax(max) == max
Zrangebyscore(max) ==
    Ascending({s \in DOMAIN cleanupIdx :
                  cleanupIdx[s] >= 0 /\ cleanupIdx[s] <= ZrangeMax(max)})

\* ------------------------------------------------------------------ callers
Idle ==
    [pc |-> "idle", op |-> "none", user |-> "", ttl |-> 0, meta |-> "",
     began |-> 0,
     sid |-> NonExistentSession, data |-> NoSession, rttl |-> 0,
     ids |-> {}, queue |-> <<>>, count |-> 0, total |-> 0, found |-> {},
     time |-> 0, valid |-> FALSE]

Call(opname) == [Idle EXCEPT !.op = opname]

\* Ids a caller can name: those some create has returned, and a made-up one.
Returned == DOMAIN issued
Nameable == Returned \cup {NonExistentSession}


\* ------------------------------------------------------------------ init
Init ==
    /\ now = 0
    /\ sessions = << >>
    /\ userSets = [u \in AllUsers |-> EmptySet]
    /\ cleanupIdx = << >>
    /\ nextId = 0
    /\ proc = [p \in Procs |-> Idle]
    /\ issued = << >>
    /\ written = << >>
    /\ invalidated = {}
    /\ listed = {}
    /\ revoked = {}

AtRest(p) == proc[p].pc = "idle"
At(p, label) == proc[p].pc = label

\* ------------------------------------------------------------------ clock
\* A second passes; the store drops every key whose deadline is behind.
Tick ==
    /\ now < MaxTime
    /\ now' = now + 1
    /\ sessions' = [s \in {k \in DOMAIN sessions : ~Expired(sessions[k].exp, now + 1)}
                       |-> sessions[s]]
    /\ userSets' = [u \in AllUsers |->
                       IF Expired(userSets[u].exp, now + 1) THEN EmptySet
                       ELSE userSets[u]]
    /\ UNCHANGED <<cleanupIdx, nextId, proc, hist>>

\* ------------------------------------------------------------------ create_session
\* expires_at=datetime.utcnow() + timedelta(seconds=ttl_seconds); metadata or {}
CreateSession(p, u, ttl, m) ==
    /\ AtRest(p)
    /\ nextId + Cardinality({q \in Procs : proc[q].pc = "c_created"}) < MaxSessions
    /\ proc' = [proc EXCEPT ![p] =
                   [Call("create") EXCEPT
                       !.pc = "c_created", !.user = u, !.ttl = ttl,
                       !.meta = m, !.began = now,
                       !.data = [NoSession EXCEPT
                                    !.user_id = u,
                                    !.expires_at = ExpiresAt(now, ttl),
                                    !.is_active = TRUE,
                                    !.metadata = MetaOrEmpty(m)]]]
    /\ UNCHANGED <<now, store, nextId, hist>>

\* SessionData(...): session_id = uuid4(), created_at = utcnow()
CreateDefaults(p) ==
    /\ At(p, "c_created")
    /\ nextId' = nextId + 1
    /\ proc' = [proc EXCEPT ![p].pc = "c_last",
                            ![p].sid = nextId + 1,
                            ![p].data.session_id = nextId + 1,
                            ![p].data.created_at = now]
    /\ UNCHANGED <<now, store, hist>>

\* SessionData(...): last_activity = utcnow()
CreateLastActivity(p) ==
    /\ At(p, "c_last")
    /\ proc' = [proc EXCEPT ![p].pc = "c_setex", ![p].data.last_activity = now]
    /\ UNCHANGED <<now, store, nextId, hist>>

\* self.redis.setex(session_key, ttl_seconds, session_data.model_dump_json())
CreateSetex(p) ==
    /\ At(p, "c_setex")
    /\ sessions' = Setex(proc[p].sid, proc[p].ttl, ModelDumpJson(proc[p].data))
    /\ written' = Put(written, proc[p].sid, sessions'[proc[p].sid])
    /\ proc' = [proc EXCEPT ![p].pc = "c_sadd"]
    /\ UNCHANGED <<now, userSets, cleanupIdx, nextId, issued,
                   invalidated, listed, revoked>>

\* self.redis.sadd(user_sessions_key, session_data.session_id)
CreateSadd(p) ==
    /\ At(p, "c_sadd")
    /\ userSets' = Sadd(proc[p].user, proc[p].sid)
    /\ proc' = [proc EXCEPT ![p].pc = "c_expire"]
    /\ UNCHANGED <<now, sessions, cleanupIdx, nextId, hist>>

\* self.redis.expire(user_sessions_key, ttl_seconds)
CreateExpire(p) ==
    /\ At(p, "c_expire")
    /\ userSets' = Expire(proc[p].user, proc[p].ttl)
    /\ proc' = [proc EXCEPT ![p].pc = "c_zadd"]
    /\ UNCHANGED <<now, sessions, cleanupIdx, nextId, hist>>

\* self.redis.zadd(cleanup_key, {session_id: expires_at.timestamp()}); return
CreateZadd(p) ==
    /\ At(p, "c_zadd")
    /\ cleanupIdx' = Zadd(proc[p].sid, Timestamp(proc[p].data.expires_at))
    /\ proc' = [proc EXCEPT ![p] = Idle]
    /\ issued' = Put(issued, proc[p].sid, proc[p].data)
    /\ UNCHANGED <<now, sessions, userSets, nextId, written,
                   invalidated, listed, revoked>>

\* ------------------------------------------------------------------ get_session
\* if session_data and session_data.is_active: sessions.append(session_data)
Found(pr, d) ==
    IF d # NoSession /\ d.is_active THEN pr.found \cup {d} ELSE pr.found

\* What get_session hands back, to its caller or to get_user_sessions' loop.
GetReturn(pr, d) ==
    IF pr.op = "get" \/ pr.ids = {} THEN Idle
    ELSE [pr EXCEPT !.pc = "l_next", !.found = Found(pr, d),
                    !.data = NoSession, !.sid = NonExistentSession, !.rttl = 0]

\* A read that goes on to the TTL query whether or not the key was there.
GetReadBlind(pr, s) == [pr EXCEPT !.pc = "g_ttl", !.sid = s]

\* session_json = self.redis.get(session_key); None when missing
GetRead(pr, s) ==
    IF ~KeyExists(s) THEN GetReturn([pr EXCEPT !.sid = s], NoSession)
    ELSE [pr EXCEPT !.pc = "g_now", !.sid = s,
                    !.data = ModelValidateJson(sessions[s].val)]

\* A sweep that swallows the exception and moves on to its next id.
RaiseSwallowed(pr) ==
    IF pr.op = "cleanup" /\ pr.queue # <<>>
    THEN [pr EXCEPT !.pc = "k_next", !.user = "", !.sid = NonExistentSession]
    ELSE Idle

\* An exception leaves the operation, whatever loop it was in.
Raise(pr) == Idle

\* return sessions
ListedAfter(pr, d) ==
    IF pr.op = "list" /\ pr.ids = {}
    THEN listed \cup {x.session_id : x \in Found(pr, d)}
    ELSE listed

GetSession(p, s) ==
    /\ AtRest(p)
    /\ proc' = [proc EXCEPT ![p] = GetRead(Call("get"), s)]
    /\ UNCHANGED <<now, store, nextId, hist>>

\* A touch that stamps the epoch instead of the clock.
GetTouchEpoch(p) ==
    /\ At(p, "g_now")
    /\ proc' = [proc EXCEPT ![p].pc = "g_ttl", ![p].data.last_activity = 0]
    /\ UNCHANGED <<now, store, nextId, hist>>

\* session_data.last_activity = datetime.utcnow()
GetTouch(p) ==
    /\ At(p, "g_now")
    /\ proc' = [proc EXCEPT ![p].pc = "g_ttl", ![p].data.last_activity = now]
    /\ UNCHANGED <<now, store, nextId, hist>>

\* self._get_remaining_ttl(session_id)
GetRemainingTtl(p) ==
    /\ At(p, "g_ttl")
    /\ proc' = [proc EXCEPT ![p].pc = "g_setex", ![p].rttl = TtlReply(proc[p].sid)]
    /\ UNCHANGED <<now, store, nextId, hist>>

\* self.redis.setex(session_key, <remaining ttl>, model_dump_json()); return
GetSetex(p) ==
    /\ At(p, "g_setex")
    /\ IF SetexOk(proc[p].rttl)
       THEN /\ sessions' = Setex(proc[p].sid, proc[p].rttl, ModelDumpJson(proc[p].data))
            /\ proc' = [proc EXCEPT ![p] = GetReturn(proc[p], proc[p].data)]
       ELSE /\ sessions' = sessions
            /\ proc' = [proc EXCEPT ![p] = Raise(proc[p])]
    /\ listed' = IF SetexOk(proc[p].rttl)
                 THEN ListedAfter(proc[p], proc[p].data) ELSE listed
    /\ UNCHANGED <<now, userSets, cleanupIdx, nextId, issued,
                   written, invalidated, revoked>>

\* ------------------------------------------------------------------ invalidate_session
\* A sweep that counts every id it tried, invalidated or not.
InvalidateReturnCounted(pr, ok) ==
    IF pr.op = "invalidate" \/ pr.queue = <<>> THEN Idle
    ELSE [pr EXCEPT !.pc = "k_next", !.count = @ + 1,
                    !.user = "", !.sid = NonExistentSession]

\* What invalidate_session hands back, to its caller or to the cleanup loop.
InvalidateReturn(pr, ok) ==
    IF pr.op = "invalidate" \/ pr.queue = <<>> THEN Idle
    ELSE [pr EXCEPT !.pc = "k_next",
                    !.count = IF ok THEN @ + 1 ELSE @,
                    !.user = "", !.sid = NonExistentSession]

\* A read that goes on to the delete whether or not the key was there.
InvalidateReadBlind(pr, s) == [pr EXCEPT !.pc = "i_del", !.sid = s, !.user = "user_1"]

\* session_json = self.redis.get(session_key); return False when missing
InvalidateRead(pr, s) ==
    IF ~KeyExists(s) THEN InvalidateReturn([pr EXCEPT !.sid = s], FALSE)
    ELSE [pr EXCEPT !.pc = "i_del", !.sid = s,
                    !.user = ModelValidateJson(sessions[s].val).user_id]

InvalidateSession(p, s) ==
    /\ AtRest(p)
    /\ proc' = [proc EXCEPT ![p] = InvalidateRead(Call("invalidate"), s)]
    /\ UNCHANGED <<now, store, nextId, hist>>

\* self.redis.delete(session_key)
InvalidateDelete(p) ==
    /\ At(p, "i_del")
    /\ sessions' = Del(proc[p].sid)
    /\ proc' = [proc EXCEPT ![p].pc = "i_zrem"]
    /\ UNCHANGED <<now, userSets, cleanupIdx, nextId, issued, written,
                   invalidated, listed, revoked>>

\* self.redis.zrem(self.session_cleanup_key, session_id)
InvalidateZrem(p) ==
    /\ At(p, "i_zrem")
    /\ cleanupIdx' = Zrem(proc[p].sid)
    /\ proc' = [proc EXCEPT ![p].pc = "i_srem"]
    /\ UNCHANGED <<now, sessions, userSets, nextId, hist>>

\* self.redis.srem(user_sessions_key, session_id); return True
InvalidateSrem(p) ==
    /\ At(p, "i_srem")
    /\ userSets' = Srem(proc[p].user, proc[p].sid)
    /\ invalidated' = invalidated \cup {proc[p].sid}
    /\ proc' = [proc EXCEPT ![p] = InvalidateReturn(proc[p], TRUE)]
    /\ UNCHANGED <<now, sessions, cleanupIdx, nextId, issued,
                   written, listed, revoked>>

\* ------------------------------------------------------------------ invalidate_user_sessions
\* The ids get_user_sessions(u) had returned when this call returns.
RevokedAfter(u) ==
    revoked \cup {s \in listed : s \in DOMAIN issued /\ issued[s].user_id = u}

\* session_ids = self.redis.smembers(user_sessions_key); return 0 when empty
InvalidateUserSessions(p, u) ==
    /\ AtRest(p)
    /\ proc' = [proc EXCEPT ![p] =
                   IF Smembers(u) = {}
                   THEN Idle
                   ELSE [Call("invalidateAll") EXCEPT
                            !.pc = "a_del", !.user = u, !.ids = Smembers(u),
                            !.count = Cardinality(Smembers(u))]]
    /\ revoked' = IF Smembers(u) = {} THEN RevokedAfter(u) ELSE revoked
    /\ UNCHANGED <<now, store, nextId, issued, written, invalidated,
                   listed>>

\* for session_id in session_ids: self.redis.delete(session_key)
InvalidateUserDelete(p) ==
    /\ At(p, "a_del")
    /\ \E s \in proc[p].ids :
          /\ sessions' = Del(s)
          /\ proc' = [proc EXCEPT ![p].pc = "a_zrem", ![p].sid = s,
                                  ![p].ids = @ \ {s}]
    /\ UNCHANGED <<now, userSets, cleanupIdx, nextId, issued, written,
                   invalidated, listed, revoked>>

\* self.redis.zrem(self.session_cleanup_key, session_id.decode())
InvalidateUserZrem(p) ==
    /\ At(p, "a_zrem")
    /\ cleanupIdx' = Zrem(proc[p].sid)
    /\ proc' = [proc EXCEPT ![p].pc = IF proc[p].ids = {} THEN "a_delset" ELSE "a_del",
                            ![p].sid = NonExistentSession]
    /\ UNCHANGED <<now, sessions, userSets, nextId, hist>>

\* self.redis.delete(user_sessions_key); return len(session_ids)
InvalidateUserDeleteSet(p) ==
    /\ At(p, "a_delset")
    /\ userSets' = DelSet(proc[p].user)
    /\ proc' = [proc EXCEPT ![p] = Idle]
    /\ revoked' = RevokedAfter(proc[p].user)
    /\ UNCHANGED <<now, sessions, cleanupIdx, nextId, issued, written,
                   invalidated, listed>>

\* ------------------------------------------------------------------ get_user_sessions
\* session_ids = self.redis.smembers(user_sessions_key)
GetUserSessions(p, u) ==
    /\ AtRest(p)
    /\ proc' = [proc EXCEPT ![p] =
                   IF Smembers(u) = {}
                   THEN Idle
                   ELSE [Call("list") EXCEPT
                            !.pc = "l_next", !.user = u, !.ids = Smembers(u)]]
    /\ UNCHANGED <<now, store, nextId, hist>>

\* for session_id in session_ids: self.get_session(session_id.decode())
GetUserSessionsNext(p) ==
    /\ At(p, "l_next")
    /\ \E s \in proc[p].ids :
          /\ proc' = [proc EXCEPT ![p] = GetRead([proc[p] EXCEPT !.ids = @ \ {s}], s)]
          /\ listed' = IF KeyExists(s) THEN listed
                       ELSE ListedAfter([proc[p] EXCEPT !.ids = @ \ {s}], NoSession)
    /\ UNCHANGED <<now, store, nextId, issued, written, invalidated,
                   revoked>>

\* ------------------------------------------------------------------ cleanup_expired_sessions
\* current_time = datetime.utcnow().timestamp()
CleanupExpiredSessions(p) ==
    /\ AtRest(p)
    /\ proc' = [proc EXCEPT ![p] =
                   [Call("cleanup") EXCEPT !.pc = "k_range", !.time = Timestamp(now)]]
    /\ UNCHANGED <<now, store, nextId, hist>>

\* expired_sessions = self.redis.zrangebyscore(cleanup_key, 0, current_time)
CleanupRange(p) ==
    /\ At(p, "k_range")
    /\ proc' = [proc EXCEPT ![p] =
                   IF Zrangebyscore(proc[p].time) = <<>>
                   THEN Idle
                   ELSE [proc[p] EXCEPT !.pc = "k_next",
                                        !.queue = Zrangebyscore(proc[p].time)]]
    /\ UNCHANGED <<now, store, nextId, hist>>

\* for session_id in expired_sessions: self.invalidate_session(...)
CleanupNext(p) ==
    /\ At(p, "k_next")
    /\ proc' = [proc EXCEPT ![p] =
                   InvalidateRead([proc[p] EXCEPT !.queue = Tail(@)],
                                  Head(proc[p].queue))]
    /\ UNCHANGED <<now, store, nextId, hist>>

\* ------------------------------------------------------------------ get_session_stats
\* total_sessions = self.redis.zcard(self.session_cleanup_key)
GetSessionStats(p) ==
    /\ AtRest(p)
    /\ proc' = [proc EXCEPT ![p] =
                   [Call("stats") EXCEPT !.pc = "s_now", !.total = Zcard]]
    /\ UNCHANGED <<now, store, nextId, hist>>

\* current_time = datetime.utcnow().timestamp()
StatsClock(p) ==
    /\ At(p, "s_now")
    /\ proc' = [proc EXCEPT ![p].pc = "s_count", ![p].time = Timestamp(now)]
    /\ UNCHANGED <<now, store, nextId, hist>>

\* The dictionary get_session_stats returns, from its locals and ZCOUNT's reply.
StatsResult(pr) ==
    [total_sessions |-> pr.total,
     active_sessions |-> Zcount(pr.time),
     expired_sessions |-> pr.total - Zcount(pr.time)]

\* active_sessions = self.redis.zcount(cleanup_key, current_time, "+inf"); return
StatsCount(p) ==
    /\ At(p, "s_count")
    /\ proc' = [proc EXCEPT ![p] = Idle]
    /\ UNCHANGED <<now, store, nextId, hist>>

\* ------------------------------------------------------------------ validation
\* validate_session_data(data): SessionValidator(**data), or
\* SessionValidationError.
ValidateSessionData(p, d) ==
    /\ AtRest(p)
    /\ proc' = [proc EXCEPT ![p] =
           [Call("validate_session_data") EXCEPT
               !.pc = "v_done", !.data = d, !.valid = SessionValidatorOk(d)]]
    /\ UNCHANGED <<now, store, nextId, hist>>

\* validate_user_id(user_id) -> bool
ValidateUserIdCall(p, u) ==
    /\ AtRest(p)
    /\ proc' = [proc EXCEPT ![p] =
           [Call("validate_user_id") EXCEPT
               !.pc = "v_done", !.user = u, !.valid = ValidateUserId(u)]]
    /\ UNCHANGED <<now, store, nextId, hist>>

\* The caller has the verdict.
ValidateReturn(p) ==
    /\ At(p, "v_done")
    /\ proc' = [proc EXCEPT ![p] = Idle]
    /\ UNCHANGED <<now, store, nextId, hist>>

\* ------------------------------------------------------------------ store failure
\* Positions from which the next thing a call does is a store command.
CommandPoints ==
    {"c_setex", "c_sadd", "c_expire", "c_zadd", "g_ttl", "g_setex",
     "i_del", "i_zrem", "i_srem", "a_del", "a_zrem", "a_delset",
     "l_next", "k_range", "k_next", "s_count"}

\* The command raises redis.RedisError; no method of SessionManager catches it.
StoreFails(p) ==
    /\ proc[p].pc \in CommandPoints
    /\ proc' = [proc EXCEPT ![p] = Raise(proc[p])]
    /\ UNCHANGED <<now, store, nextId, hist>>

\* SessionClient.get_session_stats: except redis.RedisError as e: {"error": str(e)}
ClientGetSessionStats(pr, failed) ==
    IF failed THEN [error |-> "RedisError"] ELSE StatsResult(pr)

\* ------------------------------------------------------------------ specification
CreateOps(P, U, T, M) ==
    \/ \E p \in P, u \in U, ttl \in T, m \in M : CreateSession(p, u, ttl, m)
    \/ \E p \in P : CreateDefaults(p)
    \/ \E p \in P : CreateLastActivity(p)
    \/ \E p \in P : CreateSetex(p)
    \/ \E p \in P : CreateSadd(p)
    \/ \E p \in P : CreateExpire(p)
    \/ \E p \in P : CreateZadd(p)

GetOps(P) ==
    \/ \E p \in P : \E s \in Nameable : GetSession(p, s)
    \/ \E p \in P : GetTouch(p)
    \/ \E p \in P : GetRemainingTtl(p)
    \/ \E p \in P : GetSetex(p)

InvalidateOps(P) ==
    \/ \E p \in P : \E s \in Nameable : InvalidateSession(p, s)
    \/ \E p \in P : InvalidateDelete(p)
    \/ \E p \in P : InvalidateZrem(p)
    \/ \E p \in P : InvalidateSrem(p)

InvalidateUserOps(P, U) ==
    \/ \E p \in P, u \in U : InvalidateUserSessions(p, u)
    \/ \E p \in P : InvalidateUserDelete(p)
    \/ \E p \in P : InvalidateUserZrem(p)
    \/ \E p \in P : InvalidateUserDeleteSet(p)

GetUserOps(P, U) ==
    \/ \E p \in P, u \in U : GetUserSessions(p, u)
    \/ \E p \in P : GetUserSessionsNext(p)

CleanupOps(P) ==
    \/ \E p \in P : CleanupExpiredSessions(p)
    \/ \E p \in P : CleanupRange(p)
    \/ \E p \in P : CleanupNext(p)

StatsOps(P) ==
    \/ \E p \in P : GetSessionStats(p)
    \/ \E p \in P : StatsClock(p)
    \/ \E p \in P : StatsCount(p)

\* One caller: operations run one after another, the clock between their steps.
Next ==
    \/ Tick
    \/ CreateOps({"p1"}, Users, Ttls, {"ip"})
    \/ GetOps({"p1"})
    \/ InvalidateOps({"p1"})
    \/ InvalidateUserOps({"p1"}, Users)
    \/ GetUserOps({"p1"}, Users)
    \/ CleanupOps({"p1"})
    \/ StatsOps({"p1"})

Spec == Init /\ [][Next]_vars

\* One caller that only creates, over every input.
NextCreate == Tick \/ CreateOps({"p1"}, Users, Ttls, MetaInputs)

SpecCreate == Init /\ [][NextCreate]_vars

\* One caller that creates for user ids of every shape.
NextAnyUser == Tick \/ CreateOps({"p1"}, AllUsers, {1}, {"None"})

SpecAnyUser == Init /\ [][NextAnyUser]_vars

\* Two callers whose store commands interleave: p1 invalidates, revokes and
\* sweeps while p2 creates, reads and invalidates.
NextConcurrent ==
    \/ Tick
    \/ CreateOps({"p2"}, {"user_1"}, Ttls, {"ip"})
    \/ GetOps({"p2"})
    \/ InvalidateOps(Procs)
    \/ InvalidateUserOps({"p1"}, {"user_1"})
    \/ CleanupOps({"p1"})

SpecConcurrent == Init /\ [][NextConcurrent]_vars

\* One caller whose store commands may fail.
NextFailing ==
    \/ Tick
    \/ CreateOps({"p1"}, {"user_1"}, Ttls, {"ip"})
    \/ GetOps({"p1"})
    \/ InvalidateOps({"p1"})
    \/ InvalidateUserOps({"p1"}, {"user_1"})
    \/ GetUserOps({"p1"}, {"user_1"})
    \/ CleanupOps({"p1"})
    \/ StatsOps({"p1"})
    \/ StoreFails("p1")

SpecFailing == Init /\ [][NextFailing]_vars

\* A step of cleanup_expired_sessions, those of the invalidate_session calls
\* it makes included.
SweepStep(p) ==
    \/ CleanupOps({p})
    \/ proc[p].op = "cleanup" /\ InvalidateDelete(p)
    \/ proc[p].op = "cleanup" /\ InvalidateZrem(p)
    \/ proc[p].op = "cleanup" /\ InvalidateSrem(p)

\* One caller creates while another sweeps again and again: a sweep that can
\* take a step eventually takes it.
NextSweep ==
    \/ Tick
    \/ CreateOps({"p2"}, {"user_1"}, Ttls, {"ip"})
    \/ SweepStep("p1")

SpecSweep == Init /\ [][NextSweep]_vars /\ WF_vars(SweepStep("p1")) /\ WF_vars(Tick)

\* Two callers reading the same sessions while a third party's creates come in
\* through p1.
NextReaders ==
    \/ Tick
    \/ CreateOps({"p1"}, {"user_1"}, Ttls, {"ip"})
    \/ GetOps(Procs)

SpecReaders == Init /\ [][NextReaders]_vars

\* The validator on its own: records and user ids of every kind.
NextValidator ==
    \/ \E d \in CandidateRecords : ValidateSessionData("p1", d)
    \/ \E u \in CandidateUsers : ValidateUserIdCall("p1", u)
    \/ ValidateReturn("p1")

SpecValidator == Init /\ [][NextValidator]_vars

\* ------------------------------------------------------------------ claims
Quiescent == \A p \in Procs : proc[p].pc = "idle"
RecordOf(s) == ModelValidateJson(sessions[s].val)
WrittenRecord(s) == ModelValidateJson(written[s].val)
Members == UNION {userSets[u].members : u \in AllUsers}

\* C1: once invalidate_session(s) has returned True, no state holds a
\* "session:<s>" key, whatever way the store commands of the callers interleave.
C1_InvalidatedIsTerminal == \A s \in invalidated : ~KeyExists(s)

\* C2: the deadline the store holds for a session's key stays the one that
\* create's SETEX gave it, however many get_session calls and clock ticks follow.
C2_GetKeepsExpiry ==
    \A s \in DOMAIN sessions : sessions[s].exp = written[s].exp

\* A caller's step on which its operation hands its result back.
Returns(p, opname) == proc[p].op = opname /\ proc'[p].pc = "idle"

\* C3: when cleanup_expired_sessions returns, every session whose expires_at
\* lay before the time the sweep read has no "session:<id>" key and no entry
\* in the cleanup index, also when the store had already evicted the key.
C3_CleanupRemovesExpired ==
    [][\A p \in Procs :
          Returns(p, "cleanup") =>
             \A s \in DOMAIN issued :
                issued[s].expires_at < proc[p].time =>
                   s \notin DOMAIN sessions' /\ s \notin DOMAIN cleanupIdx']_vars

\* C4: invalidate_session that found the key goes on to return True; once it
\* has, the id has no key, no cleanup-index entry and no membership in any
\* user's set, and a get_session of it finds nothing to read.
C4_InvalidateRemovesAll ==
    /\ \A s \in invalidated :
          /\ ~KeyExists(s)
          /\ s \notin DOMAIN cleanupIdx
          /\ s \notin Members
    /\ \A p \in Procs :
          /\ proc[p].pc \in {"i_zrem", "i_srem"} => ~KeyExists(proc[p].sid)
          /\ proc[p].pc = "i_srem" => proc[p].sid \notin DOMAIN cleanupIdx
          /\ proc[p].pc \in {"g_now", "g_ttl", "g_setex"} =>
                proc[p].sid \notin invalidated

\* An id invalidate_session removed while its key still had time to live.
C4_Witness ==
    \E s \in invalidated : ~KeyExists(s) /\ written[s].exp > now

\* C5: when create_session returns a session that has not yet expired, its key
\* exists with a deadline ttl_seconds after a moment within the call, the id is
\* in the owner's set whose deadline is likewise ttl_seconds after such a
\* moment, and the cleanup index maps the id to expires_at.
C5_CreateWritesAll ==
    [][\A p \in Procs :
          (Returns(p, "create") /\ now <= proc[p].data.expires_at) =>
             LET s == proc[p].sid
                 u == proc[p].user
                 due == {t + proc[p].ttl : t \in proc[p].began..now}
             IN /\ s \in DOMAIN sessions' /\ sessions'[s].exp \in due
                /\ s \in userSets'[u].members /\ userSets'[u].exp \in due
                /\ s \in DOMAIN cleanupIdx'
                /\ cleanupIdx'[s] = proc[p].data.expires_at]_vars

\* The record a returning create_session hands back.
CreateResult(p) == issued'[proc[p].sid]

\* C6 as stated: create_session returns a record with the given user_id and
\* metadata, is_active true and expires_at - created_at equal to ttl_seconds.
C6_CreateExactTtl ==
    [][\A p \in Procs :
          Returns(p, "create") =>
             /\ CreateResult(p).user_id = proc[p].user
             /\ CreateResult(p).metadata =
                   (IF proc[p].meta = "None" THEN "{}" ELSE proc[p].meta)
             /\ CreateResult(p).is_active
             /\ CreateResult(p).expires_at - CreateResult(p).created_at
                   = proc[p].ttl]_vars

\* C6: create_session returns a record with the given user_id and metadata
\* (an empty mapping for None), is_active true, and expires_at - created_at
\* short of ttl_seconds by no more than the time the call itself took.
C6_CreateTtlWithinCall ==
    [][\A p \in Procs :
          Returns(p, "create") =>
             /\ CreateResult(p).user_id = proc[p].user
             /\ CreateResult(p).metadata =
                   (IF proc[p].meta = "None" THEN "{}" ELSE proc[p].meta)
             /\ CreateResult(p).is_active
             /\ proc[p].ttl
                   - (CreateResult(p).expires_at - CreateResult(p).created_at)
                   \in 0..(now - proc[p].began)]_vars

\* A returned record created without metadata whose two clock reads were a
\* full ttl apart.
C6_Witness ==
    \E s \in DOMAIN issued :
       /\ issued[s].metadata = "{}"
       /\ issued[s].expires_at = issued[s].created_at

\* C7: get_session of a created session whose key the store still holds
\* returns the record create_session returned but for last_activity, which is
\* not before created_at; the stored record changes in last_activity only and
\* the user's set and the cleanup index stay as they were.
C7_GetReturnsRecord ==
    [][\A p \in Procs :
          (/\ proc[p].op = "get" /\ proc[p].pc = "g_setex"
           /\ proc'[p].pc = "idle"
           /\ proc[p].sid \in DOMAIN issued \ invalidated
           /\ KeyExists(proc[p].sid)) =>
             LET s == proc[p].sid
                 d == proc[p].data
             IN /\ SetexOk(proc[p].rttl)
                /\ [d EXCEPT !.last_activity = 0]
                      = [issued[s] EXCEPT !.last_activity = 0]
                /\ d.last_activity >= d.created_at
                /\ s \in DOMAIN sessions'
                /\ [ModelValidateJson(sessions'[s].val) EXCEPT !.last_activity = 0]
                      = [RecordOf(s) EXCEPT !.last_activity = 0]
                /\ userSets' = userSets
                /\ cleanupIdx' = cleanupIdx]_vars

\* C8: no step of cleanup_expired_sessions removes the key, the cleanup-index
\* entry or a set membership of a session whose expires_at is after the time
\* the sweep read, whatever the other caller's create_session, get_session and
\* invalidate_session commands do in between.
C8_CleanupSparesLive ==
    [][\A p \in Procs :
          (proc[p].op = "cleanup" /\ proc'[p] # proc[p]) =>
             \A s \in DOMAIN written :
                WrittenRecord(s).expires_at > proc[p].time =>
                   /\ s \in DOMAIN sessions => s \in DOMAIN sessions'
                   /\ s \in DOMAIN cleanupIdx => s \in DOMAIN cleanupIdx'
                   /\ \A u \in AllUsers :
                         s \in userSets[u].members => s \in userSets'[u].members]_vars

\* The sweep is deleting one session while the store holds another that
\* expires after the time the sweep read.
C8_Witness ==
    \E p \in Procs :
       /\ proc[p].op = "cleanup" /\ proc[p].pc = "i_zrem"
       /\ \E s \in DOMAIN sessions \cap DOMAIN cleanupIdx :
             s # proc[p].sid /\ WrittenRecord(s).expires_at > proc[p].time

\* C9: once invalidate_user_sessions(u) has returned, no id get_user_sessions(u)
\* had returned before has a key or a cleanup-index entry, and a later
\* get_user_sessions finds none of them to read.
C9_RevokedAreGone ==
    /\ \A s \in revoked : ~KeyExists(s) /\ s \notin DOMAIN cleanupIdx
    /\ \A p \in Procs :
          (proc[p].op = "list" /\ proc[p].pc = "g_now") => proc[p].sid \notin revoked

\* C10: when no caller is inside an operation, every id in a user's set or in
\* the cleanup index has its key in the store or an expires_at that is not
\* after the clock.
C10_IndexedAreLiveOrExpired ==
    Quiescent =>
       \A s \in Members \cup DOMAIN cleanupIdx :
          KeyExists(s) \/ WrittenRecord(s).expires_at <= now

\* C11: no "session:<id>" key, user set or cleanup-index entry is ever written
\* for a user id the validator rejects.
C11_InvalidUserWritesNothing ==
    /\ \A u \in AllUsers : ~ValidateUserId(u) => userSets[u].members = {}
    /\ \A s \in DOMAIN sessions : ValidateUserId(RecordOf(s).user_id)
    /\ \A s \in DOMAIN cleanupIdx : ValidateUserId(WrittenRecord(s).user_id)

\* C12: with cleanup_expired_sessions invoked again and again, from some point
\* on every id in the cleanup index has its "session:<id>" key in the store.
C12_IndexEventuallyLive ==
    <>[](\A s \in DOMAIN cleanupIdx : KeyExists(s))

\* C13: get_session_stats returns total = the size of the cleanup index,
\* active = the number of its entries with a score strictly after the time the
\* call read, and expired = total - active.
C13_StatsCounts ==
    [][\A p \in Procs :
          Returns(p, "stats") =>
             /\ StatsResult(proc[p]).total_sessions = Cardinality(DOMAIN cleanupIdx)
             /\ StatsResult(proc[p]).active_sessions =
                   Cardinality({s \in DOMAIN cleanupIdx : cleanupIdx[s] > proc[p].time})
             /\ StatsResult(proc[p]).expired_sessions =
                   StatsResult(proc[p]).total_sessions
                      - StatsResult(proc[p]).active_sessions]_vars

\* C14: when a store command of a statistics call fails, the call still
\* returns, with total, active and expired counts of zero.
C14_StatsZeroOnFailure ==
    [][\A p \in Procs :
          (proc[p].op = "stats" /\ StoreFails(p)) =>
             ClientGetSessionStats(proc[p], TRUE) =
                [total_sessions |-> 0, active_sessions |-> 0,
                 expired_sessions |-> 0]]_vars

\* Ids that were created and whose key the store no longer holds.
Evicted == {s \in DOMAIN issued \ invalidated : ~KeyExists(s)}

\* C15: invalidate_session of an id without a "session:<id>" key returns at
\* its GET, with no store command to follow and nothing changed; inside the
\* sweep such a call leaves the count of cleaned sessions as it was.
C15_InvalidateAbsent ==
    /\ \A s \in Nameable :
          ~KeyExists(s) => InvalidateRead(Call("invalidate"), s) = Idle
    /\ \A p \in Procs :
          (proc[p].pc = "k_next" /\ ~KeyExists(Head(proc[p].queue))) =>
             LET after == InvalidateRead([proc[p] EXCEPT !.queue = Tail(@)],
                                         Head(proc[p].queue))
             IN \/ after = Idle
                \/ after.pc = "k_next" /\ after.count = proc[p].count

\* A caller at rest that can name a never-created id, an invalidated id and an
\* id the store has evicted.
C15_Witness ==
    /\ Quiescent
    /\ invalidated # {}
    /\ Evicted # {}

\* C16: get_session of an id without a "session:<id>" key returns None at its
\* GET, with no store command to follow; inside get_user_sessions such an id
\* adds nothing to the result.
C16_GetAbsent ==
    /\ \A s \in Nameable :
          ~KeyExists(s) => GetRead(Call("get"), s) = Idle
    /\ \A p \in Procs :
          proc[p].pc = "l_next" =>
             \A s \in proc[p].ids :
                ~KeyExists(s) =>
                   LET after == GetRead([proc[p] EXCEPT !.ids = @ \ {s}], s)
                   IN \/ after = Idle
                      \/ after.pc = "l_next" /\ after.found = proc[p].found

\* get_user_sessions is about to resolve an id whose key is gone while the
\* set still lists another.
C16_Witness ==
    \E p \in Procs :
       /\ proc[p].pc = "l_next"
       /\ Cardinality(proc[p].ids) = 2
       /\ \E s \in proc[p].ids : ~KeyExists(s)

\* C17: invalidate_user_sessions reads the user's set and keeps its size as
\* the result; it then deletes the key and the cleanup-index entry of every id
\* read, whether or not the key was still there, and returns once none is
\* left, deleting the set; on an empty set it returns at once, the store
\* untouched.
C17_InvalidateUserCounts ==
    [][\A p \in Procs :
          /\ (proc[p].pc = "idle" /\ proc'[p].op = "invalidateAll") =>
                /\ proc'[p].ids = userSets[proc'[p].user].members
                /\ proc'[p].ids # {}
                /\ proc'[p].count = Cardinality(proc'[p].ids)
                /\ store' = store
          /\ (proc[p].pc = "a_del" /\ proc'[p] # proc[p]) =>
                /\ proc'[p].sid \in proc[p].ids
                /\ proc'[p].ids = proc[p].ids \ {proc'[p].sid}
                /\ proc'[p].sid \notin DOMAIN sessions'
                /\ proc'[p].count = proc[p].count
          /\ (proc[p].pc = "a_zrem" /\ proc'[p] # proc[p]) =>
                /\ proc[p].sid \notin DOMAIN cleanupIdx'
                /\ proc'[p].ids = proc[p].ids
                /\ proc'[p].count = proc[p].count
                /\ proc'[p].pc = "a_delset" <=> proc[p].ids = {}
          /\ (proc[p].pc = "a_delset" /\ proc'[p] # proc[p]) =>
                /\ proc[p].ids = {}
                /\ proc[p].count >= 1
                /\ userSets'[proc[p].user] = EmptySet
                /\ proc'[p].pc = "idle"]_vars

\* invalidate_user_sessions has worked through a set of two ids, one of which
\* the store had evicted, and is about to delete the set.
C17_Witness ==
    \E p \in Procs :
       /\ proc[p].pc = "a_delset"
       /\ proc[p].count = 2
       /\ \E s \in DOMAIN written : written[s].exp < now

\* C18: cleanup_expired_sessions selects the ids whose score is not after the
\* time it read and starts its count at zero; an id whose key is absent
\* leaves the count and the store as they were; an id whose key is present is
\* deleted, removed from the index, and adds one to the count.
C18_CleanupCounts ==
    [][\A p \in Procs :
          (proc[p].op = "cleanup" /\ proc'[p] # proc[p]) =>
             /\ (proc[p].pc = "k_range" /\ proc'[p].pc = "k_next") =>
                   /\ {proc'[p].queue[i] : i \in 1..Len(proc'[p].queue)} =
                         {s \in DOMAIN cleanupIdx : cleanupIdx[s] <= proc[p].time}
                   /\ proc'[p].count = 0
             /\ (proc[p].pc = "k_next" /\ proc'[p].pc = "k_next") =>
                   /\ ~KeyExists(Head(proc[p].queue))
                   /\ proc'[p].count = proc[p].count
                   /\ store' = store
             /\ (proc[p].pc = "k_next" /\ proc'[p].pc = "i_del") =>
                   /\ KeyExists(Head(proc[p].queue))
                   /\ proc'[p].count = proc[p].count
             /\ (proc[p].pc = "i_srem" /\ proc'[p].pc = "k_next") =>
                   /\ proc'[p].count = proc[p].count + 1
                   /\ proc[p].sid \in invalidated'
                   /\ ~KeyExists(proc[p].sid)
                   /\ proc[p].sid \notin DOMAIN cleanupIdx]_vars

\* The sweep is deleting its second id after passing over a first one whose
\* key was gone.
C18_Witness ==
    \E p \in Procs :
       /\ proc[p].op = "cleanup" /\ proc[p].pc = "i_del"
       /\ proc[p].count = 0
       /\ \E s \in DOMAIN cleanupIdx :
             /\ s # proc[p].sid
             /\ cleanupIdx[s] <= proc[p].time
             /\ ~KeyExists(s)

\* C19: get_user_sessions resolves every id of the user's set: an id whose key
\* is present yields its record, which joins the result when is_active holds;
\* an id whose key is absent is passed over, the result as it was; every
\* record of the result belongs to the user asked for.
C19_ListResolvesSet ==
    [][\A p \in Procs :
          (proc[p].op = "list" /\ proc'[p] # proc[p]) =>
             /\ (proc[p].pc = "g_setex" /\ KeyExists(proc[p].sid)) =>
                   /\ SetexOk(proc[p].rttl)
                   /\ proc[p].data.user_id = proc[p].user
                   /\ proc'[p].pc = "l_next" =>
                         (proc[p].data.is_active <=> proc[p].data \in proc'[p].found)
                   /\ proc'[p].pc = "idle" =>
                         (proc[p].data.is_active => proc[p].sid \in listed')
             /\ (proc[p].pc = "l_next" /\ proc'[p].pc = "l_next") =>
                   proc'[p].found = proc[p].found
             /\ \A d \in proc'[p].found : d.user_id = proc[p].user]_vars

\* C20: a store command that fails ends the operation it belongs to: the
\* caller is left with no call in progress and no command pending, and
\* neither the store nor what earlier calls returned has changed.
C20_FailureEndsOperation ==
    [][\A p \in Procs :
          StoreFails(p) =>
             /\ proc'[p].pc = "idle"
             /\ proc'[p].queue = <<>> /\ proc'[p].ids = {}
             /\ store' = store
             /\ hist' = hist]_vars

\* A created key that no create returned and the cleanup index does not hold:
\* create_session failed after its SETEX.
C20_Witness ==
    /\ Quiescent
    /\ \E s \in DOMAIN sessions :
          s \notin DOMAIN issued /\ s \notin DOMAIN cleanupIdx

\* C21: every record held under a "session:<id>" key has expires_at after
\* created_at and last_activity not before created_at.
C21_StoredRecordInvariants ==
    \A s \in DOMAIN sessions :
       /\ RecordOf(s).expires_at > RecordOf(s).created_at
       /\ RecordOf(s).last_activity >= RecordOf(s).created_at

\* The rule as written: not empty, at most 255 characters, every character
\* one of [A-Za-z0-9_-].
UserIdRule(u) ==
    /\ Len(UserIdText(u)) >= 1
    /\ Len(UserIdText(u)) <= MaxUserIdLength
    /\ \A i \in 1..Len(UserIdText(u)) : UserIdText(u)[i] \in UserIdChars

\* The fields of a candidate record other than user_id pass their checks.
RestValid(d) == SessionIdFieldOk(d.session_id) /\ ExpiresAtOk(d) /\ LastActivityOk(d)

\* C22: the validator accepts a user id exactly when it is not empty, at most
\* 255 characters long and made only of [A-Za-z0-9_-]; both validate_user_id
\* and, the other fields being valid, SessionValidator.
C22_UserIdAcceptedIffRule ==
    \A p \in Procs :
       /\ (At(p, "v_done") /\ proc[p].op = "validate_user_id")
             => (proc[p].valid <=> UserIdRule(proc[p].user))
       /\ (At(p, "v_done") /\ proc[p].op = "validate_session_data"
             /\ RestValid(proc[p].data))
             => (proc[p].valid <=> UserIdRule(proc[p].data.user_id))

\* The other fields of a candidate record pass their checks.
OtherFieldsValid(d) == UserIdFieldOk(d.user_id) /\ SessionIdFieldOk(d.session_id)

\* C23: with the other fields valid, the validator rejects a record exactly
\* when expires_at <= created_at or last_activity < created_at.
C23_TimesRejectedIffOutOfOrder ==
    \A p \in Procs :
       (At(p, "v_done") /\ proc[p].op = "validate_session_data"
          /\ OtherFieldsValid(proc[p].data))
       => (~proc[p].valid <=>
             \/ proc[p].data.expires_at <= proc[p].data.created_at
             \/ proc[p].data.last_activity < proc[p].data.created_at)

\* A record one second long, touched at its creation time, was accepted.
C23_Witness ==
    \E p \in Procs :
       /\ At(p, "v_done") /\ proc[p].op = "validate_session_data"
       /\ OtherFieldsValid(proc[p].data)
       /\ proc[p].data.expires_at = proc[p].data.created_at + 1
       /\ proc[p].data.last_activity = proc[p].data.created_at
       /\ proc[p].valid

\* C24: serialising a record and deserialising the text gives back a record
\* equal in every field, metadata included; checked on the records create
\* returns.
C24_RoundTripIsLossless ==
    \A s \in DOMAIN issued : ModelValidateJson(ModelDumpJson(issued[s])) = issued[s]

\* C25: with no call in progress, every session whose key is live is a member
\* of its owner's set, so that listing the owner's sessions returns it.
C25_LiveSessionsAreListed ==
    Quiescent =>
       \A s \in DOMAIN sessions : s \in Smembers(RecordOf(s).user_id)

\* C27: get_session never hands SETEX a ttl that is zero or negative.
C27_GetSetexTtlPositive ==
    \A p \in Procs : At(p, "g_setex") => SetexOk(proc[p].rttl)

\* The sessions of user u that create_session has returned.
IssuedTo(u) == {s \in DOMAIN issued : issued[s].user_id = u}

\* C26: once invalidate_user_sessions(u) has returned, no session of u that
\* create had returned before the call has a key left for get_session to
\* find.  The call returns either at once, on an empty set, the store as it
\* was, or after deleting the set.
C26_NoneSurvivesRevokeAll ==
    [][\A u \in Users :
          /\ (Quiescent /\ Smembers(u) = {}) =>
                \A s \in IssuedTo(u) : ~KeyExists(s)
          /\ \A p \in Procs :
                (At(p, "a_delset") /\ proc[p].user = u /\ proc'[p] # proc[p]) =>
                   \A s \in IssuedTo(u) : s \notin DOMAIN sessions']_vars

\* C28 as stated: no step lowers the last_activity stored under a session key.
C28_LastActivityNeverDecreases ==
    [][\A s \in DOMAIN sessions \cap DOMAIN sessions' :
          RecordOf(s)'.last_activity >= RecordOf(s).last_activity]_vars

\* C28: each rewrite of get_session stores the last_activity the call took
\* from the clock, which is not before the record's created_at and not after
\* the current time; the last rewrite wins.
C28_RewriteStoresOwnClockRead ==
    [][\A p \in Procs :
          (At(p, "g_setex") /\ SetexOk(proc[p].rttl) /\ proc'[p] # proc[p]) =>
             /\ ModelValidateJson(sessions'[proc[p].sid].val).last_activity =
                   proc[p].data.last_activity
             /\ proc[p].data.last_activity >= proc[p].data.created_at
             /\ proc[p].data.last_activity <= now]_vars

\* A get is about to rewrite the key with a last_activity older than the one
\* another get has stored meanwhile.
C28_Witness ==
    \E p \in Procs :
       /\ At(p, "g_setex") /\ SetexOk(proc[p].rttl) /\ KeyExists(proc[p].sid)
       /\ proc[p].data.last_activity < RecordOf(proc[p].sid).last_activity

\* C29: no step of invalidate_user_sessions(u) changes the key or the
\* cleanup-index entry of a session of another user, or another user's set.
C29_RevokeAllSparesOthers ==
    [][\A p \in Procs :
          (proc[p].op = "invalidateAll" /\ proc'[p] # proc[p]) =>
             /\ \A v \in AllUsers \ {proc[p].user} : userSets'[v] = userSets[v]
             /\ \A s \in DOMAIN written :
                   WrittenRecord(s).user_id # proc[p].user =>
                      /\ KeyExists(s) =>
                            s \in DOMAIN sessions' /\ sessions'[s] = sessions[s]
                      /\ s \in DOMAIN cleanupIdx =>
                            s \in DOMAIN cleanupIdx' /\ cleanupIdx'[s] = cleanupIdx[s]]_vars

\* invalidate_user_sessions has deleted a key of its user while a session of
\* another user is live, indexed and in its owner's set.
C29_Witness ==
    \E p \in Procs :
       /\ proc[p].op = "invalidateAll" /\ At(p, "a_zrem")
       /\ \E s \in DOMAIN sessions \cap DOMAIN cleanupIdx :
             /\ WrittenRecord(s).user_id # proc[p].user
             /\ s \in Smembers(WrittenRecord(s).user_id)

\* C30: a user's set never holds more ids than the configured per-user cap.
C30_SetWithinCap ==
    \A u \in AllUsers : Cardinality(Smembers(u)) <= MaxSessionsPerUser

====
